---------------------------- MODULE Spec2Model ----------------------------
(***************************************************************************)
(* A model of sentence_corrector.py: the SentenceCorrector class, whose    *)
(* constructor loads a word list (dict_full) and builds a frequency        *)
(* lexicon (train_dict) from a corpus, and whose correct_sentence and      *)
(* _find_closest_word map the tokens of a sentence to lexicon keys.        *)
(*                                                                         *)
(* A character is its Unicode code point and a Python str is a sequence of *)
(* code points: "дом" is <<1076, 1086, 1084>>.  A Python dict is a         *)
(* sequence of <<key, value>> pairs in insertion order, which is the order *)
(* a Python dict iterates in.                                              *)
(***************************************************************************)
EXTENDS Naturals, Sequences, FiniteSets, TLC

VARIABLES
    pc,                \* "new" | "ready" | "returned": where the caller is
    dictionary_file,   \* the lines of the word list file (dictionary_path)
    train_correct,     \* the corpus column, as runs <<text, times>>
    dict_full,         \* self.dict_full
    train_dict,        \* self.train_dict
    sonority,          \* self.sonority
    op,                \* the method the caller ran last: "none" | "correct" | "resolve"
    arg,               \* its argument
    words,             \* correct_sentence's local: the tokens
    corrected_words,   \* correct_sentence's local: one result per token
    ret                \* the value it returned

vars == <<pc, dictionary_file, train_correct, dict_full, train_dict, sonority,
          op, arg, words, corrected_words, ret>>

-----------------------------------------------------------------------------
(* Python str *)

\* str.lower(), on the code points of the model's alphabet: ASCII A-Z,
\* Cyrillic U+0410..U+042F and U+0400..U+040F have a lowercase; the rest
\* (lowercase letters, digits, punctuation, whitespace) map to themselves.
Lower(c) ==
    IF c \in 65..90 THEN c + 32
    ELSE IF c \in 1040..1071 THEN c + 32
    ELSE IF c \in 1024..1039 THEN c + 80
    ELSE c

StrLower(s) == [i \in 1..Len(s) |-> Lower(s[i])]

\* The characters below U+0500 that str.split() and str.strip() treat as
\* whitespace.
Whitespace == {9, 10, 11, 12, 13, 28, 29, 30, 31, 32, 133, 160}

\* The character class of the pattern of lines 49 and 109, read as re reads
\* it: the digits, the 26 letters q w e ... n m, then ! @ #, then "$--",
\* which is the range from $ (36) to - (45), then , . ? ¬ ] [ ' "
NoiseClass ==
    (48..57) \cup (97..122) \cup {33, 64, 35} \cup (36..45)
        \cup {44, 46, 63, 172, 93, 91, 39, 34}

\* re.sub(pattern, ' ', s): every match (one character) becomes one space.
ReSub(s) == [i \in 1..Len(s) |-> IF s[i] \in NoiseClass THEN 32 ELSE s[i]]

\* str.split(): the maximal runs of non-whitespace characters, in order.
\* toks are the finished tokens, cur the run being read.
RECURSIVE SplitFrom(_, _, _, _)
SplitFrom(s, i, toks, cur) ==
    IF i > Len(s)
    THEN IF cur = <<>> THEN toks ELSE Append(toks, cur)
    ELSE IF s[i] \in Whitespace
         THEN IF cur = <<>>
              THEN SplitFrom(s, i + 1, toks, <<>>)
              ELSE SplitFrom(s, i + 1, Append(toks, cur), <<>>)
         ELSE SplitFrom(s, i + 1, toks, Append(cur, s[i]))

Split(s) == SplitFrom(s, 1, <<>>, <<>>)

\* re.sub('[...]', ' ', string.lower()).split()
Tokenize(s) == Split(ReSub(StrLower(s)))

\* str.strip(): leading and trailing whitespace removed.
RECURSIVE LStrip(_)
LStrip(s) == IF s # <<>> /\ Head(s) \in Whitespace THEN LStrip(Tail(s)) ELSE s

RECURSIVE RStrip(_)
RStrip(s) ==
    IF s # <<>> /\ s[Len(s)] \in Whitespace
    THEN RStrip(SubSeq(s, 1, Len(s) - 1))
    ELSE s

Strip(s) == LStrip(RStrip(s))

\* sep.join(parts)
RECURSIVE Join(_, _)
Join(sep, parts) ==
    IF parts = <<>> THEN <<>>
    ELSE IF Len(parts) = 1 THEN parts[1]
    ELSE parts[1] \o sep \o Join(sep, Tail(parts))

-----------------------------------------------------------------------------
(* Python dict: <<key, value>> pairs in insertion order *)

KeySet(d) == {d[i][1] : i \in 1..Len(d)}

\* k in d
Has(d, k) == k \in KeySet(d)

\* d[k], for a key of d
Get(d, k) == d[CHOOSE i \in 1..Len(d) : d[i][1] = k][2]

\* d.get(k, default)
GetOr(d, k, default) == IF Has(d, k) THEN Get(d, k) ELSE default

\* d[k] = v: a present key keeps its place, a new one goes last.
Put(d, k, v) ==
    IF Has(d, k)
    THEN LET i == CHOOSE n \in 1..Len(d) : d[n][1] = k
         IN  SubSeq(d, 1, i - 1) \o << <<k, v>> >> \o SubSeq(d, i + 1, Len(d))
    ELSE Append(d, <<k, v>>)

\* d.pop(k, None)
Pop(d, k) ==
    LET keep(e) == e[1] # k
    IN  SelectSeq(d, keep)

-----------------------------------------------------------------------------
(* _levenshtein_distance *)

Min3(a, b, c) ==
    IF a <= b THEN (IF a <= c THEN a ELSE c) ELSE (IF b <= c THEN b ELSE c)

\* One row of the edit-distance table: the distances from word1[1..i] to
\* every prefix of word2, from prev, the row of word1[1..i-1].  ch is
\* word1[i]; cur holds the cells already filled, cell 0 (= i) first.
RECURSIVE LevRow(_, _, _, _)
LevRow(prev, ch, word2, cur) ==
    LET j == Len(cur)
    IN  IF j > Len(word2) THEN cur
        ELSE LevRow(prev, ch, word2,
                    Append(cur, Min3(prev[j] + (IF ch = word2[j] THEN 0 ELSE 1),
                                     prev[j + 1] + 1,
                                     cur[j] + 1)))

RECURSIVE LevFrom(_, _, _, _)
LevFrom(word1, i, word2, prev) ==
    IF i > Len(word1) THEN prev[Len(word2) + 1]
    ELSE LevFrom(word1, i + 1, word2, LevRow(prev, word1[i], word2, <<i>>))

\* Levenshtein.distance(word1, word2): insertions, deletions and
\* substitutions, each of cost 1.
LevenshteinDistance(word1, word2) ==
    LevFrom(word1, 1, word2, [k \in 1..(Len(word2) + 1) |-> k - 1])

-----------------------------------------------------------------------------
(* _load_russian_dictionary *)

\* One line of the file: stripped, and without its first character when
\* that is '-' (45).
LoadLine(d, line) ==
    LET word == Strip(line)
    IN  IF word # <<>> /\ word[1] = 45
        THEN Put(d, Tail(word), 1)
        ELSE Put(d, word, 1)

RECURSIVE LoadLines(_, _)
LoadLines(d, lines) ==
    IF lines = <<>> THEN d ELSE LoadLines(LoadLine(d, Head(lines)), Tail(lines))

LoadRussianDictionary(lines) == LoadLines(<<>>, lines)

-----------------------------------------------------------------------------
(* _process_training_data *)

critical == 5

\* for word in words: buf_dictionary[word] = buf_dictionary.get(word, 0) + 1
RECURSIVE CountWords(_, _)
CountWords(buf, ws) ==
    IF ws = <<>> THEN buf
    ELSE IF Has(buf, Head(ws))
         THEN CountWords(Put(buf, Head(ws), Get(buf, Head(ws)) + 1), Tail(ws))
         ELSE CountWords(Put(buf, Head(ws), 0 + 1), Tail(ws))

\* A run <<text, times>> of the column is the row text, times times over:
\* each of its rows is tokenized and counted in turn, the first half of the
\* rows and then the rest.  (Len(half) >= 0 always holds; it is there so
\* that TLC computes half before it goes on, which keeps its stack shallow.)
RECURSIVE CountRun(_, _, _)
CountRun(buf, string, times) ==
    IF times = 0 THEN buf
    ELSE IF times = 1 THEN CountWords(buf, Tokenize(string))
    ELSE LET half == CountRun(buf, string, times \div 2)
         IN  IF Len(half) >= 0
             THEN CountRun(half, string, times - (times \div 2))
             ELSE half

RECURSIVE CountColumn(_, _)
CountColumn(buf, column) ==
    IF column = <<>> THEN buf
    ELSE CountColumn(CountRun(buf, Head(column)[1], Head(column)[2]), Tail(column))

\* Faulty variants of the condition of lines 58-59: "<=" for the first "<",
\* and ">" for the "<" of the length.
ShouldDropInclusive(buf, full, word) ==
    \/ (~Has(full, word) /\ Get(buf, word) <= critical)
    \/ (Len(word) < 4 /\ Get(buf, word) < 50 /\ ~Has(full, word))

ShouldDropLongOnly(buf, full, word) ==
    \/ (~Has(full, word) /\ Get(buf, word) < critical)
    \/ (Len(word) > 4 /\ Get(buf, word) < 50 /\ ~Has(full, word))

\* The condition of lines 58-59, under which a word is popped.
ShouldDrop(buf, full, word) ==
    \/ (~Has(full, word) /\ Get(buf, word) < critical)
    \/ (Len(word) < 4 /\ Get(buf, word) < 50 /\ ~Has(full, word))

\* for word in buf_dictionary: if ...: dictionary.pop(word, None)
RECURSIVE FilterFrom(_, _, _, _)
FilterFrom(dictionary, buf, full, i) ==
    IF i > Len(buf) THEN dictionary
    ELSE FilterFrom(IF ShouldDrop(buf, full, buf[i][1])
                    THEN Pop(dictionary, buf[i][1])
                    ELSE dictionary,
                    buf, full, i + 1)

\* A faulty variant: the sentinel is never inserted.
ProcessTrainingDataNoSentinel(column, full) ==
    LET buf_dictionary == CountColumn(<<>>, column)
    IN  FilterFrom(buf_dictionary, buf_dictionary, full, 1)

ProcessTrainingData(column, full) ==
    LET buf_dictionary == CountColumn(<<>>, column)
        dictionary == FilterFrom(buf_dictionary, buf_dictionary, full, 1)
    IN  Put(dictionary, <<>>, 1)

-----------------------------------------------------------------------------
(* _find_closest_word *)

\* The loop's variables: min_dist is float('inf') while inf holds.
ClosestStart == [inf |-> TRUE, min_dist |-> 0, closest_words |-> <<>>]

\* A faulty variant: "else" for "elif dist == min_dist".
ClosestStepElse(st, word, dict_word) ==
    LET dist == LevenshteinDistance(word, dict_word)
    IN  IF st.inf \/ dist < st.min_dist
        THEN [inf |-> FALSE, min_dist |-> dist, closest_words |-> <<dict_word>>]
        ELSE [st EXCEPT !.closest_words = Append(@, dict_word)]

\* The body of the loop of lines 85-91.
ClosestStep(st, word, dict_word) ==
    LET dist == LevenshteinDistance(word, dict_word)
    IN  IF st.inf \/ dist < st.min_dist
        THEN [inf |-> FALSE, min_dist |-> dist, closest_words |-> <<dict_word>>]
        ELSE IF dist = st.min_dist
             THEN [st EXCEPT !.closest_words = Append(@, dict_word)]
             ELSE st

RECURSIVE ClosestFrom(_, _, _, _)
ClosestFrom(st, d, word, i) ==
    IF i > Len(d) THEN st
    ELSE ClosestFrom(ClosestStep(st, word, d[i][1]), d, word, i + 1)

\* A faulty variant: the first of the closest words, whatever its frequency.
MaxByFrequencyFirst(d, candidates) == candidates[1]

\* max(candidates, key=lambda x: d[x]): the first of the candidates with the
\* greatest value.
RECURSIVE MaxFrom(_, _, _, _)
MaxFrom(d, candidates, i, best) ==
    IF i > Len(candidates) THEN best
    ELSE MaxFrom(d, candidates, i + 1,
                 IF Get(d, candidates[i]) > Get(d, best) THEN candidates[i] ELSE best)

MaxByFrequency(d, candidates) == MaxFrom(d, candidates, 2, candidates[1])

FindClosestWord(d, word) ==
    IF Has(d, word) THEN word
    ELSE LET closest_words == ClosestFrom(ClosestStart, d, word, 1).closest_words
         IN  IF closest_words = <<>> THEN word
             ELSE MaxByFrequency(d, closest_words)

-----------------------------------------------------------------------------
(* correct_sentence *)

\* A faulty variant: a known word is skipped ("continue"), not appended.
RECURSIVE CorrectWordsSkipKnown(_, _)
CorrectWordsSkipKnown(d, ws) ==
    IF ws = <<>> THEN <<>>
    ELSE IF Has(d, Head(ws))
         THEN CorrectWordsSkipKnown(d, Tail(ws))
         ELSE <<FindClosestWord(d, Head(ws))>> \o CorrectWordsSkipKnown(d, Tail(ws))

\* The loop of lines 113-118: corrected_words.
RECURSIVE CorrectWords(_, _)
CorrectWords(d, ws) ==
    IF ws = <<>> THEN <<>>
    ELSE IF Has(d, Head(ws))
         THEN <<Head(ws)>> \o CorrectWords(d, Tail(ws))
         ELSE <<FindClosestWord(d, Head(ws))>> \o CorrectWords(d, Tail(ws))

\* Faulty variants: ''.join(...), and a space after every word.
JoinWordsNoSeparator(parts) == Join(<<>>, parts)

JoinWordsTrailing(parts) == Join(<<>>, [i \in 1..Len(parts) |-> parts[i] \o <<32>>])

\* ' '.join(corrected_words)
JoinWords(parts) == Join(<<32>>, parts)

CorrectSentence(d, sentence) == JoinWords(CorrectWords(d, Tokenize(sentence)))

-----------------------------------------------------------------------------
(* The inputs the model is run on *)

MaxRuns == 2        \* runs of the corpus column, under Spec
MaxBuildRuns == 3   \* runs of the corpus column, under SpecBuild
MaxParts == 2       \* parts of a sentence, under Spec
MaxWordLen == 3     \* letters of a word to resolve, under Spec
MaxRawLen == 3      \* characters of a sentence, under SpecTok

dom == <<1076, 1086, 1084>>                         \* "дом"
tom == <<1090, 1086, 1084>>                         \* "том"
stol == <<1089, 1090, 1086, 1083>>                  \* "стол"
okno == <<1086, 1082, 1085, 1086>>                  \* "окно"
ol == <<1086, 1083>>                                \* "ол"
ya == <<1103>>                                      \* "я"
horosho == <<1093, 1086, 1088, 1086, 1096, 1086>>   \* "хорошо"
ploho == <<1087, 1083, 1086, 1093, 1086>>           \* "плохо"
harasho == <<1093, 1072, 1088, 1072, 1096, 1086>>   \* "харашо"

\* All sequences of at most n elements of S.
RECURSIVE SeqsUpTo(_, _)
SeqsUpTo(S, n) ==
    IF n = 0 THEN {<<>>}
    ELSE LET shorter == SeqsUpTo(S, n - 1)
         IN  shorter \cup {Append(q, x) : q \in shorter, x \in S}

RECURSIVE Concat(_)
Concat(parts) == IF parts = <<>> THEN <<>> ELSE Head(parts) \o Concat(Tail(parts))

\* Word list files: an empty one, and "дом\n", "-стол \n".
MainFiles == {<<>>, <<dom \o <<10>>, <<45>> \o stol \o <<32, 10>>>>}

\* Runs of the corpus: "Хорошо, хорошо плохо!" x 5, "дом стол" x 4,
\* "стол" x 1, "том окно" x 5.
MainRuns ==
    { << <<1061>> \o Tail(horosho) \o <<44, 32>> \o horosho \o <<32>> \o ploho \o <<33>>, 5 >>,
      << dom \o <<32>> \o stol, 4 >>,
      << stol, 1 >>,
      << tom \o <<32>> \o okno, 5 >> }

\* Parts of a sentence: "Дом,", "ол ", "я%", "харашо!", " q1 ".
Parts ==
    { <<1044>> \o Tail(dom) \o <<44>>,
      ol \o <<32>>,
      ya \o <<37>>,
      harasho \o <<33>>,
      <<32, 113, 49, 32>> }

Sentences == {Concat(q) : q \in SeqsUpTo(Parts, MaxParts)}

\* The words to resolve: some of the corpus and near them, and every word
\* of at most MaxWordLen of the letters д о м.
ResolveWords ==
    {<<>>, dom, tom, stol, ol, ya, horosho, harasho}
        \cup SeqsUpTo({1076, 1086, 1084}, MaxWordLen)

\* Word list files: an empty one, "дом\n", and "-стол\n", "\n", " окно \n".
BuildFiles ==
    { <<>>,
      <<dom \o <<10>>>>,
      << <<45>> \o stol \o <<10>>, <<10>>, <<32>> \o okno \o <<32, 10>>>> }

\* Runs of the corpus: "стол" x 3, "окно" x 60, "дом" x 5, "дом" x 44,
\* "Дом, стол!" x 1, "q1 !" x 1.
BuildRuns ==
    { << stol, 3 >>,
      << okno, 60 >>,
      << dom, 5 >>,
      << dom, 44 >>,
      << <<1044>> \o Tail(dom) \o <<44, 32>> \o stol \o <<33>>, 1 >>,
      << <<113, 49, 32, 33>>, 1 >> }

\* х Х q Q 1 ! $ % + - ; and the space and the tab
TokAlphabet == {1093, 1061, 113, 81, 49, 33, 36, 37, 43, 45, 59, 32, 9}

RawStrings == SeqsUpTo(TokAlphabet, MaxRawLen)

-----------------------------------------------------------------------------
(* The program *)

NotConstructed ==
    /\ pc = "new"
    /\ dict_full = <<>>
    /\ train_dict = <<>>
    /\ sonority = <<>>
    /\ op = "none"
    /\ arg = <<>>
    /\ words = <<>>
    /\ corrected_words = <<>>
    /\ ret = <<>>

Init ==
    /\ dictionary_file \in MainFiles
    /\ train_correct \in SeqsUpTo(MainRuns, MaxRuns)
    /\ NotConstructed

InitBuild ==
    /\ dictionary_file \in BuildFiles
    /\ train_correct \in SeqsUpTo(BuildRuns, MaxBuildRuns)
    /\ NotConstructed

InitTok ==
    /\ dictionary_file \in MainFiles
    /\ train_correct = << <<dom \o <<32>> \o stol, 4>> >>
    /\ NotConstructed

\* The table of lines 24-28: б-п в-ф г-к д-т ж-ш з-с and back.
SonorityTable ==
    << <<1073, 1087>>, <<1074, 1092>>, <<1075, 1082>>, <<1076, 1090>>,
       <<1078, 1096>>, <<1079, 1089>>, <<1087, 1073>>, <<1092, 1074>>,
       <<1082, 1075>>, <<1090, 1076>>, <<1096, 1078>>, <<1089, 1079>> >>

\* SentenceCorrector.__init__
Construct ==
    /\ pc = "new"
    /\ dict_full' = LoadRussianDictionary(dictionary_file)
    /\ train_dict' = ProcessTrainingData(train_correct, dict_full')
    /\ sonority' = SonorityTable
    /\ pc' = "ready"
    /\ UNCHANGED <<dictionary_file, train_correct, op, arg, words, corrected_words, ret>>

\* corrector.correct_sentence(sentence), for a sentence of S
CorrectSentenceCall(S) ==
    /\ pc = "ready"
    /\ \E sentence \in S :
        /\ op' = "correct"
        /\ arg' = sentence
        /\ words' = Tokenize(sentence)
        /\ corrected_words' = CorrectWords(train_dict, words')
        /\ ret' = JoinWords(corrected_words')
    /\ pc' = "returned"
    /\ UNCHANGED <<dictionary_file, train_correct, dict_full, train_dict, sonority>>

\* A faulty variant: the correction found is stored in the lexicon.
FindClosestWordCallCaching(W) ==
    /\ pc = "ready"
    /\ \E word \in W :
        /\ op' = "resolve"
        /\ arg' = word
        /\ ret' = FindClosestWord(train_dict, word)
        /\ train_dict' = Put(train_dict, word, GetOr(train_dict, ret', 1))
    /\ pc' = "returned"
    /\ UNCHANGED <<dictionary_file, train_correct, dict_full, sonority,
                   words, corrected_words>>

\* corrector._find_closest_word(word), for a word of W
FindClosestWordCall(W) ==
    /\ pc = "ready"
    /\ \E word \in W :
        /\ op' = "resolve"
        /\ arg' = word
        /\ ret' = FindClosestWord(train_dict, word)
    /\ pc' = "returned"
    /\ UNCHANGED <<dictionary_file, train_correct, dict_full, train_dict, sonority,
                   words, corrected_words>>

\* The caller takes the result and is ready for its next call.
Return ==
    /\ pc = "returned"
    /\ pc' = "ready"
    /\ op' = "none"
    /\ arg' = <<>>
    /\ words' = <<>>
    /\ corrected_words' = <<>>
    /\ ret' = <<>>
    /\ UNCHANGED <<dictionary_file, train_correct, dict_full, train_dict, sonority>>

Next ==
    \/ Construct
    \/ CorrectSentenceCall(Sentences)
    \/ FindClosestWordCall(ResolveWords)
    \/ Return

Spec == Init /\ [][Next]_vars

\* The constructor alone, over more corpora and word lists.
NextBuild == Construct

SpecBuild == InitBuild /\ [][NextBuild]_vars

\* correct_sentence over every short string of TokAlphabet.
NextTok ==
    \/ Construct
    \/ CorrectSentenceCall(RawStrings)
    \/ Return

SpecTok == InitTok /\ [][NextTok]_vars

-----------------------------------------------------------------------------
(* What the claims are stated with *)

Returned(method) == pc = "returned" /\ op = method

\* The base vocabulary and the frequency of a lexicon key.
BaseVocabulary == KeySet(dict_full)

Freq(k) == Get(train_dict, k)

Dist(a, b) == LevenshteinDistance(a, b)

\* The keys of the lexicon at the least distance from w.
Nearest(w) ==
    {k \in KeySet(train_dict) : \A other \in KeySet(train_dict) : Dist(w, k) <= Dist(w, other)}

\* The tokens that correct_sentence looked up, each with its result.
Looked ==
    IF Returned("resolve") THEN {<<arg, ret>>}
    ELSE IF Returned("correct") /\ Len(corrected_words) = Len(words)
         THEN {<<words[i], corrected_words[i]>> : i \in 1..Len(words)}
         ELSE {}

RECURSIVE SumSeq(_)
SumSeq(q) == IF q = <<>> THEN 0 ELSE Head(q) + SumSeq(Tail(q))

\* How often w occurs among the tokens of the corpus.
Occurrences(w) ==
    SumSeq([r \in 1..Len(train_correct) |->
              train_correct[r][2]
                * Cardinality({i \in 1..Len(Tokenize(train_correct[r][1])) :
                                 Tokenize(train_correct[r][1])[i] = w})])

CorpusTokens ==
    UNION {{Tokenize(train_correct[r][1])[i] : i \in 1..Len(Tokenize(train_correct[r][1]))}
             : r \in 1..Len(train_correct)}

\* No key is held twice.
UniqueKeys(d) == \A i, j \in 1..Len(d) : d[i][1] = d[j][1] => i = j

\* s cut at every space: the inverse of joining with single spaces.
RECURSIVE CutFrom(_, _, _, _)
CutFrom(s, i, parts, cur) ==
    IF i > Len(s) THEN Append(parts, cur)
    ELSE IF s[i] = 32
         THEN CutFrom(s, i + 1, Append(parts, cur), <<>>)
         ELSE CutFrom(s, i + 1, parts, Append(cur, s[i]))

CutAtSpaces(s) == CutFrom(s, 1, <<>>, <<>>)

NonEmpty(parts) ==
    LET full(x) == x # <<>>
    IN  SelectSeq(parts, full)

-----------------------------------------------------------------------------
(* The claims *)

\* C1: for a token w that is not a key of the lexicon, the key that
\* _find_closest_word returns (called directly or by correct_sentence) is at
\* the least Levenshtein distance from w of all keys, the empty-string
\* sentinel included: no key is strictly closer to w.
C1_MinimalDistance ==
    \A p \in Looked :
        ~Has(train_dict, p[1]) =>
            /\ Has(train_dict, p[2])
            /\ \A k \in KeySet(train_dict) : Dist(p[1], p[2]) <= Dist(p[1], k)

\* C1's case: an unknown word is resolved to a key that is neither the first
\* key nor the sentinel, while some key lies strictly farther away.
C1_Witness ==
    /\ Returned("resolve")
    /\ ~Has(train_dict, arg)
    /\ Len(train_dict) >= 3
    /\ ret # train_dict[1][1]
    /\ ret # <<>>
    /\ \E k \in KeySet(train_dict) : Dist(arg, k) > Dist(arg, ret)

\* C2: for a token w that is not a key, the returned key has the greatest
\* frequency among the keys at the least distance from w; and with the
\* lexicon {"хорошо": 10, "плохо": 5, "": 1}, "харашо" resolves to "хорошо".
C2_HighestFrequency ==
    /\ \A p \in Looked :
        ~Has(train_dict, p[1]) =>
            /\ p[2] \in Nearest(p[1])
            /\ \A k \in Nearest(p[1]) : Freq(k) <= Freq(p[2])
    /\ (/\ Returned("resolve")
        /\ train_dict = << <<horosho, 10>>, <<ploho, 5>>, <<<<>>, 1>> >>
        /\ arg = harasho) => ret = horosho

\* C2's case: the example lexicon, asked for "харашо".
C2_Witness ==
    /\ Returned("resolve")
    /\ train_dict = << <<horosho, 10>>, <<ploho, 5>>, <<<<>>, 1>> >>
    /\ arg = harasho
    /\ Dist(harasho, horosho) = 2
    /\ Dist(harasho, ploho) = 5
    /\ ret = horosho

\* C3: a token that is a key of the lexicon is returned by
\* _find_closest_word as it is, and correct_sentence puts it unchanged at
\* its own position among the results.
C3_ExactMatch ==
    /\ (Returned("resolve") /\ Has(train_dict, arg)) => ret = arg
    /\ Returned("correct") =>
        /\ Len(corrected_words) = Len(words)
        /\ \A i \in 1..Len(words) :
            (i <= Len(corrected_words) /\ Has(train_dict, words[i]))
                => corrected_words[i] = words[i]

\* C3's case: a sentence whose second token is a key and whose first is not,
\* under a lexicon with other keys.
C3_Witness ==
    /\ Returned("correct")
    /\ Len(words) = 2
    /\ Len(train_dict) >= 3
    /\ ~Has(train_dict, words[1])
    /\ Has(train_dict, words[2])
    /\ corrected_words[2] = words[2]
    /\ corrected_words[1] # words[1]

\* C4: whatever the word list and the corpus, the constructed lexicon holds
\* the empty string as a key, once, with frequency 1.
C4_Sentinel ==
    pc # "new" =>
        /\ Has(train_dict, <<>>)
        /\ Freq(<<>>) = 1
        /\ Cardinality({i \in 1..Len(train_dict) : train_dict[i][1] = <<>>}) = 1

\* C4's case: a corpus that has tokens, all of which are dropped.
C4_Witness ==
    /\ pc = "ready"
    /\ CorpusTokens # {}
    /\ train_dict = << <<<<>>, 1>> >>

\* C5: a non-empty string w is a key of the lexicon with value c exactly
\* when w occurs c >= 1 times among the tokens of the corpus and not
\* ((w is not in V and c < 5) or (len(w) < 4 and c < 50 and w is not in V)).
C5_Retention ==
    pc # "new" =>
        /\ UniqueKeys(train_dict)
        /\ \A w \in (CorpusTokens \cup BaseVocabulary \cup KeySet(train_dict)
                        \cup {dom, tom, stol, okno}) \ {<<>>} :
            LET c == Occurrences(w)
                dropped == \/ (w \notin BaseVocabulary /\ c < 5)
                           \/ (Len(w) < 4 /\ c < 50 /\ w \notin BaseVocabulary)
            IN  /\ Has(train_dict, w) <=> (c >= 1 /\ ~dropped)
                /\ Has(train_dict, w) => Freq(w) = c

\* C5's case: an empty word list and the counts "стол" 3, "окно" 60, "дом" 5,
\* of which only "окно" is kept.
C5_Witness ==
    /\ pc = "ready"
    /\ BaseVocabulary = {}
    /\ Occurrences(stol) = 3
    /\ Occurrences(okno) = 60
    /\ Occurrences(dom) = 5
    /\ train_dict = << <<okno, 60>>, <<<<>>, 1>> >>

\* C6: correct_sentence returns the results of the tokens of its argument,
\* a key kept and any other token resolved, one per token and in their
\* order, with exactly one space between two results; the empty string when
\* there is no token.
C6_Correct ==
    Returned("correct") =>
        LET toks == Tokenize(arg)
            expected == [i \in 1..Len(toks) |->
                           IF Has(train_dict, toks[i]) THEN toks[i]
                           ELSE FindClosestWord(train_dict, toks[i])]
        IN  /\ Len(corrected_words) = Len(toks)
            /\ toks = <<>> => ret = <<>>
            /\ toks # <<>> => CutAtSpaces(ret) = expected

\* C6's case: two tokens, the first a key that is kept and the second
\* replaced by another key that is not the sentinel.
C6_Witness ==
    /\ Returned("correct")
    /\ Len(words) = 2
    /\ Has(train_dict, words[1])
    /\ ~Has(train_dict, words[2])
    /\ corrected_words[2] \notin {<<>>, words[2]}
    /\ ret = words[1] \o <<32>> \o corrected_words[2]

\* The noise class as the specification lists it: the digits, a-z and
\* ! @ # $ - , . ? ¬ ] [ ' "
ListedNoise ==
    (48..57) \cup (97..122) \cup {33, 64, 35, 36, 45, 44, 46, 63, 172, 93, 91, 39, 34}

\* C7: tokenization replaces a character of the lowercased input by a space
\* if and only if it is in the listed noise class, so the tokens are exactly
\* the maximal runs of characters that are neither listed noise nor
\* whitespace.
C7_ListedNoiseOnly ==
    Returned("correct") =>
        /\ \A i \in 1..Len(arg) :
            (ReSub(StrLower(arg))[i] # StrLower(arg)[i]) <=> (Lower(arg[i]) \in ListedNoise)
        /\ words = Split([i \in 1..Len(arg) |->
                            IF Lower(arg[i]) \in ListedNoise THEN 32 ELSE Lower(arg[i])])

\* C8: every key of the lexicon but the sentinel, with its frequency c, is
\* in the base vocabulary, or has c >= 5 and (length >= 4 or c >= 50).
C8_RetainedSatisfyRule ==
    pc # "new" =>
        \A k \in KeySet(train_dict) \ {<<>>} :
            \/ k \in BaseVocabulary
            \/ (Freq(k) >= 5 /\ (Len(k) >= 4 \/ Freq(k) >= 50))

\* C8's case: a lexicon with a key of the base vocabulary that is rarer than
\* 5 and a key outside it that is shorter than 4.
C8_Witness ==
    /\ pc = "ready"
    /\ \E k \in KeySet(train_dict) : k \in BaseVocabulary /\ Freq(k) < 5
    /\ \E k \in KeySet(train_dict) \ {<<>>} :
        k \notin BaseVocabulary /\ Len(k) < 4 /\ Freq(k) >= 50

\* C9: once constructed, no call of correct_sentence or _find_closest_word
\* changes the lexicon or the base vocabulary, so what correct_sentence
\* returns is decided by the constructor's inputs and the sentence alone.
C9_ReadOnly ==
    [][pc # "new" =>
        /\ train_dict' = train_dict
        /\ dict_full' = dict_full
        /\ op' = "correct" =>
            ret' = CorrectSentence(
                     ProcessTrainingData(train_correct,
                                         LoadRussianDictionary(dictionary_file)),
                     arg')]_vars

\* C9's case: a call has returned a correction.
C9_Witness ==
    /\ Returned("correct")
    /\ words # <<>>
    /\ ret # arg
    /\ Len(train_dict) >= 2

\* C10, as claimed: correcting the result of correct_sentence gives that
\* result again.
C10_Idempotent ==
    Returned("correct") => CorrectSentence(train_dict, ret) = ret

\* C10, amended: correcting the result of correct_sentence gives its
\* non-empty per-token results joined by single spaces; that is the result
\* itself whenever no token was resolved to the empty-string sentinel.
C10_IdempotentButForSentinel ==
    Returned("correct") =>
        /\ CorrectSentence(train_dict, ret) = Join(<<32>>, NonEmpty(corrected_words))
        /\ (\A i \in 1..Len(corrected_words) : corrected_words[i] # <<>>)
            => CorrectSentence(train_dict, ret) = ret

\* C10's case: one token resolved to the sentinel beside one resolved to a
\* word, so that the result changes when it is corrected again.
C10_Witness ==
    /\ Returned("correct")
    /\ \E i, j \in 1..Len(corrected_words) :
        corrected_words[i] = <<>> /\ corrected_words[j] # <<>>
    /\ CorrectSentence(train_dict, ret) # ret

=============================================================================
